---- MODULE Spec2Model ----
(***************************************************************************)
(* The lot ledger of the SQLite-backed "stock farm" (src/app.py): the      *)
(* tables lots, transactions and prices, the writers add_buy, sell_lots and *)
(* set_price, and the functions the pages compute from them.  A table is a *)
(* sequence of rows in insertion order; a TEXT value is a sequence of      *)
(* characters (0 is a blank, d > 0 stands for the text of the date d); a   *)
(* nullable column holds NULL or NotNull(v).                               *)
(*                                                                         *)
(* The spreadsheet-backed farm (src/sheet_manager.py, src/web_app.py): the *)
(* worksheets Crops and Users, the sessions of the web page that read and  *)
(* write them one API call at a time, and the farm page.  A worksheet is   *)
(* the sequence of its filled rows, the header row included.               *)
(***************************************************************************)
EXTENDS Integers, Sequences, FiniteSets

VARIABLES lots, transactions, prices, last, view,
          crops, users, sessions, audit

vars == <<lots, transactions, prices, last, view, crops, users, sessions, audit>>

\* The spreadsheet and its sessions: the worksheets Crops and Users, where
\* each session of the web page stands in its request, and what has been
\* answered so far (the rows save_crop appended, the users whose crops a
\* remove_crop or update_crop_qty was called for, the registrations that
\* returned True).
sheetVars == <<crops, users, sessions, audit>>

\* ------------------------------------------------------------------ bounds
MaxLots == 3      \* rows of the table lots
MaxTx   == 3      \* rows of the table transactions
MaxQty  == 2      \* largest quantity of one add_buy
MaxSel  == 2      \* longest lot_ids list of one sell_lots
MaxOpen == 3      \* most OPEN lots handed to pick_lots_auto
MaxPct  == 12     \* largest return, in percent, handed to farm_stage
MaxRows == 3      \* filled rows of the worksheet Crops
MaxCropQty == 2   \* largest quantity of one crop

\* ------------------------------------------------------------------ inputs
Securities == {1, 2}
Notes      == {""}
Quantities == -1 .. MaxQty
LotIds     == 1 .. MaxLots

\* An execution: the text of its date (bare, or with blanks around it) and
\* its price.
Fills == {[dt |-> <<1>>, price |-> 100], [dt |-> <<0, 2, 0>>, price |-> 110]}

RECURSIVE SeqsUpTo(_, _)
SeqsUpTo(S, n) ==
    IF n = 0 THEN {<<>>}
    ELSE LET shorter == SeqsUpTo(S, n - 1)
         IN  shorter \cup {Append(s, x) : s \in {t \in shorter : Len(t) = n - 1}, x \in S}

LotIdLists == SeqsUpTo(LotIds, MaxSel)

\* ------------------------------------------------------------------ values
NULL == <<>>
NotNull(v) == <<v>>

\* str.strip(): the text without its leading and trailing blanks.
RECURSIVE LStrip(_)
LStrip(s) == IF s # <<>> /\ Head(s) = 0 THEN LStrip(Tail(s)) ELSE s

RECURSIVE RStrip(_)
RStrip(s) == IF s # <<>> /\ s[Len(s)] = 0 THEN RStrip(SubSeq(s, 1, Len(s) - 1)) ELSE s

Strip(s) == RStrip(LStrip(s))

Rows(table) == {table[i] : i \in 1 .. Len(table)}

Ids(table) == {r.id : r \in Rows(table)}

Range(seq) == {seq[i] : i \in 1 .. Len(seq)}

Open(table) == {l \in Rows(table) : l.status = "OPEN"}

Closed(table) == {l \in Rows(table) : l.status = "CLOSED"}

MaxOf(S) == IF S = {} THEN 0 ELSE CHOOSE x \in S : \A y \in S : y <= x

\* INTEGER PRIMARY KEY AUTOINCREMENT: one more than the largest id handed out
\* (no row of these tables is ever deleted).
NextRowId(table) == MaxOf(Ids(table)) + 1

\* ------------------------------------------------------------------ add_buy
\* Mutant: an upsert keyed by (security, type, datetime) in place of the insert.
InsertTransaction_Upsert(table, security_id, type, datetime, quantity, price, note) ==
    IF \E i \in 1 .. Len(table) :
          /\ table[i].security_id = security_id
          /\ table[i].type = type
          /\ table[i].datetime = datetime
    THEN [i \in 1 .. Len(table) |->
            IF /\ table[i].security_id = security_id
               /\ table[i].type = type
               /\ table[i].datetime = datetime
            THEN [table[i] EXCEPT !.quantity = quantity, !.price = price, !.note = note]
            ELSE table[i]]
    ELSE Append(table, [id          |-> NextRowId(table),
                        security_id |-> security_id,
                        type        |-> type,
                        datetime    |-> datetime,
                        quantity    |-> quantity,
                        price       |-> price,
                        note        |-> note])

InsertTransaction(table, security_id, type, datetime, quantity, price, note) ==
    Append(table, [id          |-> NextRowId(table),
                   security_id |-> security_id,
                   type        |-> type,
                   datetime    |-> datetime,
                   quantity    |-> quantity,
                   price       |-> price,
                   note        |-> note])

InsertLot(table, security_id, buy_datetime, buy_price) ==
    Append(table, [id            |-> NextRowId(table),
                   security_id   |-> security_id,
                   buy_datetime  |-> buy_datetime,
                   buy_price     |-> buy_price,
                   status        |-> "OPEN",
                   sell_datetime |-> NULL,
                   sell_price    |-> NULL])

\* Mutant: range(qty + 1).
RECURSIVE InsertLots_OffByOne(_, _, _, _, _)
InsertLots_OffByOne(table, n, security_id, buy_datetime, buy_price) ==
    IF n < 0 THEN table
    ELSE InsertLots_OffByOne(InsertLot(table, security_id, buy_datetime, buy_price),
                             n - 1, security_id, buy_datetime, buy_price)

\* cur.executemany(INSERT INTO lots ...) over range(qty)
RECURSIVE InsertLots(_, _, _, _, _)
InsertLots(table, n, security_id, buy_datetime, buy_price) ==
    IF n <= 0 THEN table
    ELSE InsertLots(InsertLot(table, security_id, buy_datetime, buy_price),
                    n - 1, security_id, buy_datetime, buy_price)

\* Mutant: the check reads qty < 0.
add_buy_ZeroAllowed(db, security_id, buy_dt, buy_price, qty, note) ==
    IF qty < 0
    THEN [lots |-> db.lots, transactions |-> db.transactions, raised |-> "ValueError"]
    ELSE [lots         |-> InsertLots(db.lots, qty, security_id, Strip(buy_dt), buy_price),
          transactions |-> InsertTransaction(db.transactions, security_id, "BUY",
                                             Strip(buy_dt), qty, buy_price, note),
          raised       |-> "none"]

\* Mutant: one lot row for the whole purchase.
add_buy_OneLot(db, security_id, buy_dt, buy_price, qty, note) ==
    IF qty <= 0
    THEN [lots |-> db.lots, transactions |-> db.transactions, raised |-> "ValueError"]
    ELSE [lots         |-> InsertLot(db.lots, security_id, Strip(buy_dt), buy_price),
          transactions |-> InsertTransaction(db.transactions, security_id, "BUY",
                                             Strip(buy_dt), qty, buy_price, note),
          raised       |-> "none"]

add_buy(db, security_id, buy_dt, buy_price, qty, note) ==
    IF qty <= 0
    THEN [lots |-> db.lots, transactions |-> db.transactions, raised |-> "ValueError"]
    ELSE [lots         |-> InsertLots(db.lots, qty, security_id, Strip(buy_dt), buy_price),
          transactions |-> InsertTransaction(db.transactions, security_id, "BUY",
                                             Strip(buy_dt), qty, buy_price, note),
          raised       |-> "none"]

\* ------------------------------------------------------------------ get_open_lots
\* TEXT compared as SQLite's BINARY collation does: character by character,
\* a proper prefix first.
RECURSIVE TextLess(_, _)
TextLess(a, b) ==
    IF b = <<>> THEN FALSE
    ELSE IF a = <<>> THEN TRUE
    ELSE IF Head(a) # Head(b) THEN Head(a) < Head(b)
    ELSE TextLess(Tail(a), Tail(b))

\* Mutant: ORDER BY id ASC.
OpenLotBefore_ById(x, y) == x.id < y.id

\* ORDER BY buy_datetime ASC, id ASC
OpenLotBefore(x, y) ==
    \/ TextLess(x.buy_datetime, y.buy_datetime)
    \/ x.buy_datetime = y.buy_datetime /\ x.id < y.id

RECURSIVE OrderOpenLots(_)
OrderOpenLots(S) ==
    IF S = {} THEN <<>>
    ELSE LET first == CHOOSE x \in S : \A y \in S \ {x} : OpenLotBefore(x, y)
         IN  <<first>> \o OrderOpenLots(S \ {first})

get_open_lots(table, security_id) ==
    OrderOpenLots({[id |-> l.id, buy_datetime |-> l.buy_datetime, buy_price |-> l.buy_price] :
                     l \in {r \in Rows(table) : r.security_id = security_id /\ r.status = "OPEN"}})

\* ------------------------------------------------------------------ get_closed_lots
\* limit: int = 200
DefaultLimit == 200

\* ORDER BY sell_datetime DESC, id DESC
ClosedLotBefore(x, y) ==
    \/ TextLess(y.sell_datetime[1], x.sell_datetime[1])
    \/ x.sell_datetime = y.sell_datetime /\ x.id > y.id

RECURSIVE OrderClosedLots(_)
OrderClosedLots(S) ==
    IF S = {} THEN <<>>
    ELSE LET first == CHOOSE x \in S : \A y \in S \ {x} : ClosedLotBefore(x, y)
         IN  <<first>> \o OrderClosedLots(S \ {first})

\* LIMIT ?
Limit(rows, limit) ==
    SubSeq(rows, 1, IF limit < Len(rows) THEN limit ELSE Len(rows))

\* Mutant: the WHERE clause without status='CLOSED' (a lot never sold sorts
\* as sold at the empty text).
get_closed_lots_AnyStatus(table, security_id, limit) ==
    Limit(OrderClosedLots({[id |-> l.id, buy_datetime |-> l.buy_datetime,
                            buy_price |-> l.buy_price,
                            sell_datetime |-> IF l.sell_datetime = NULL
                                              THEN NotNull(<<>>) ELSE l.sell_datetime,
                            sell_price |-> l.sell_price] :
                             l \in {r \in Rows(table) : r.security_id = security_id}}),
          limit)

get_closed_lots(table, security_id, limit) ==
    Limit(OrderClosedLots({[id |-> l.id, buy_datetime |-> l.buy_datetime,
                            buy_price |-> l.buy_price, sell_datetime |-> l.sell_datetime,
                            sell_price |-> l.sell_price] :
                             l \in {r \in Rows(table) : r.security_id = security_id
                                                        /\ r.status = "CLOSED"}}),
          limit)

\* ------------------------------------------------------------------ sell_lots
\* Mutant: the UPDATE sets the status alone.
UpdateLot_StatusOnly(table, sell_dt, sell_price, lid, security_id) ==
    [i \in 1 .. Len(table) |->
        IF /\ table[i].id = lid
           /\ table[i].security_id = security_id
           /\ table[i].status = "OPEN"
        THEN [table[i] EXCEPT !.status = "CLOSED"]
        ELSE table[i]]

\* Mutant: DELETE FROM lots in place of the UPDATE.
UpdateLot_Delete(table, sell_dt, sell_price, lid, security_id) ==
    SelectSeq(table, LAMBDA r : ~ (/\ r.id = lid
                                   /\ r.security_id = security_id
                                   /\ r.status = "OPEN"))

\* Mutant: WHERE id=? AND status='OPEN'.
UpdateLot_NoSecurityFilter(table, sell_dt, sell_price, lid, security_id) ==
    [i \in 1 .. Len(table) |->
        IF /\ table[i].id = lid
           /\ table[i].status = "OPEN"
        THEN [table[i] EXCEPT !.status        = "CLOSED",
                              !.sell_datetime = NotNull(sell_dt),
                              !.sell_price    = NotNull(sell_price)]
        ELSE table[i]]

\* Mutant: WHERE security_id=? AND status='OPEN'.
UpdateLot_NoIdFilter(table, sell_dt, sell_price, lid, security_id) ==
    [i \in 1 .. Len(table) |->
        IF /\ table[i].security_id = security_id
           /\ table[i].status = "OPEN"
        THEN [table[i] EXCEPT !.status        = "CLOSED",
                              !.sell_datetime = NotNull(sell_dt),
                              !.sell_price    = NotNull(sell_price)]
        ELSE table[i]]

\* Mutant: a blind write, the WHERE clause without status='OPEN'.
UpdateLot_Blind(table, sell_dt, sell_price, lid, security_id) ==
    [i \in 1 .. Len(table) |->
        IF /\ table[i].id = lid
           /\ table[i].security_id = security_id
        THEN [table[i] EXCEPT !.status        = "CLOSED",
                              !.sell_datetime = NotNull(sell_dt),
                              !.sell_price    = NotNull(sell_price)]
        ELSE table[i]]

\* Mutant: the UPDATE books the sale over the purchase columns as well.
UpdateLot_Rebook(table, sell_dt, sell_price, lid, security_id) ==
    [i \in 1 .. Len(table) |->
        IF /\ table[i].id = lid
           /\ table[i].security_id = security_id
           /\ table[i].status = "OPEN"
        THEN [table[i] EXCEPT !.status        = "CLOSED",
                              !.buy_datetime  = sell_dt,
                              !.buy_price     = sell_price,
                              !.sell_datetime = NotNull(sell_dt),
                              !.sell_price    = NotNull(sell_price)]
        ELSE table[i]]

\* UPDATE lots SET status='CLOSED', sell_datetime=?, sell_price=?
\*  WHERE id=? AND security_id=? AND status='OPEN'
UpdateLot(table, sell_dt, sell_price, lid, security_id) ==
    [i \in 1 .. Len(table) |->
        IF /\ table[i].id = lid
           /\ table[i].security_id = security_id
           /\ table[i].status = "OPEN"
        THEN [table[i] EXCEPT !.status        = "CLOSED",
                              !.sell_datetime = NotNull(sell_dt),
                              !.sell_price    = NotNull(sell_price)]
        ELSE table[i]]

\* cur.executemany(UPDATE ...) over lot_ids, in order
RECURSIVE UpdateLots(_, _, _, _, _)
UpdateLots(table, sell_dt, sell_price, lot_ids, security_id) ==
    IF lot_ids = <<>> THEN table
    ELSE UpdateLots(UpdateLot(table, sell_dt, sell_price, Head(lot_ids), security_id),
                    sell_dt, sell_price, Tail(lot_ids), security_id)

\* Mutant: no check of an empty selection.
sell_lots_NoEmptyCheck(db, security_id, lot_ids, sell_dt, sell_price, note) ==
    [lots         |-> UpdateLots(db.lots, Strip(sell_dt), sell_price, lot_ids, security_id),
     transactions |-> InsertTransaction(db.transactions, security_id, "SELL",
                                        Strip(sell_dt), Len(lot_ids), sell_price, note),
     raised       |-> "none"]

sell_lots(db, security_id, lot_ids, sell_dt, sell_price, note) ==
    IF lot_ids = <<>>
    THEN [lots |-> db.lots, transactions |-> db.transactions, raised |-> "ValueError"]
    ELSE [lots         |-> UpdateLots(db.lots, Strip(sell_dt), sell_price, lot_ids, security_id),
          transactions |-> InsertTransaction(db.transactions, security_id, "SELL",
                                             Strip(sell_dt), Len(lot_ids), sell_price, note),
          raised       |-> "none"]

\* ------------------------------------------------------------------ pct, farm_stage
\* A float is the exact fraction <<n, d>>, d > 0, that it stands for; the
\* rounding of the float operations is outside the model.
\* (a / b - 1.0) * 100.0, and 0.0 when b == 0
pct(a, b) ==
    IF b = 0 THEN <<0, 1>>
    ELSE IF b > 0 THEN <<(a - b) * 100, b>>
    ELSE <<(b - a) * 100, 0 - b>>

\* Mutant: the first test reads return_pct < -10.0.
farm_stage_RottenBelow(return_pct) ==
    IF return_pct = NULL THEN "no-price"
    ELSE LET n == return_pct[1][1]
             d == return_pct[1][2]
         IN  IF n < (0 - 10) * d THEN "rotten"
             ELSE IF n < 0 THEN "withered"
             ELSE IF n < 10 * d THEN "sprout"
             ELSE "bloom"

\* return_pct is None or a float: NULL or NotNull(<<n, d>>).  The stages are
\* the pairs of a name and an icon the function returns, by the names the
\* specification gives them: no-price, rotten, withered, sprout, bloom.
farm_stage(return_pct) ==
    IF return_pct = NULL THEN "no-price"
    ELSE LET n == return_pct[1][1]
             d == return_pct[1][2]
         IN  IF n <= (0 - 10) * d THEN "rotten"
             ELSE IF n < 0 THEN "withered"
             ELSE IF n < 10 * d THEN "sprout"
             ELSE "bloom"

\* ------------------------------------------------------------------ set_price, get_price
\* Mutant: a plain INSERT, the table a history of quotes.
UpsertPrice_Append(table, security_id, asof_datetime, price) ==
    Append(table, [security_id   |-> security_id,
                   asof_datetime |-> asof_datetime,
                   price         |-> price])

\* INSERT INTO prices ... ON CONFLICT(security_id) DO UPDATE SET asof_datetime, price
UpsertPrice(table, security_id, asof_datetime, price) ==
    IF \E i \in 1 .. Len(table) : table[i].security_id = security_id
    THEN [i \in 1 .. Len(table) |->
            IF table[i].security_id = security_id
            THEN [table[i] EXCEPT !.asof_datetime = asof_datetime, !.price = price]
            ELSE table[i]]
    ELSE Append(table, [security_id   |-> security_id,
                        asof_datetime |-> asof_datetime,
                        price         |-> price])

\* asof is None or a text: NULL or NotNull(text); now is what iso_now() reads.
set_price(table, security_id, price, asof, now) ==
    UpsertPrice(table, security_id, IF asof = NULL THEN now ELSE asof[1], price)

\* None, or the (asof_datetime, price) of the first row of the security.
get_price(table, security_id) ==
    LET found == {i \in 1 .. Len(table) : table[i].security_id = security_id}
    IN  IF found = {} THEN NULL
        ELSE LET row == table[CHOOSE i \in found : \A j \in found : i <= j]
             IN  NotNull(<<row.asof_datetime, row.price>>)

\* ------------------------------------------------------------------ portfolio_total_pnl
\* Mutant: SUM(COALESCE(sell_price, 0) - buy_price) over every lot.
RECURSIVE Realized_AllLots(_)
Realized_AllLots(lot_table) ==
    IF lot_table = <<>> THEN 0
    ELSE (IF Head(lot_table).sell_price # NULL
          THEN Head(lot_table).sell_price[1] - Head(lot_table).buy_price
          ELSE 0 - Head(lot_table).buy_price)
         + Realized_AllLots(Tail(lot_table))

\* SELECT COALESCE(SUM(sell_price - buy_price), 0.0) FROM lots
\*  WHERE status='CLOSED' AND sell_price IS NOT NULL
RECURSIVE Realized(_)
Realized(lot_table) ==
    IF lot_table = <<>> THEN 0
    ELSE (IF Head(lot_table).status = "CLOSED" /\ Head(lot_table).sell_price # NULL
          THEN Head(lot_table).sell_price[1] - Head(lot_table).buy_price
          ELSE 0)
         + Realized(Tail(lot_table))

\* The rows one lot contributes to lots l JOIN prices p ON p.security_id =
\* l.security_id, summed as p.price - l.buy_price.
RECURSIVE JoinedGain(_, _)
JoinedGain(l, price_table) ==
    IF price_table = <<>> THEN 0
    ELSE (IF Head(price_table).security_id = l.security_id
          THEN Head(price_table).price - l.buy_price
          ELSE 0)
         + JoinedGain(l, Tail(price_table))

\* Mutant: LEFT JOIN with a missing quote taken as 0.
RECURSIVE Unrealized_MissingAsZero(_, _)
Unrealized_MissingAsZero(lot_table, price_table) ==
    IF lot_table = <<>> THEN 0
    ELSE (IF Head(lot_table).status = "OPEN"
          THEN IF \E p \in Rows(price_table) : p.security_id = Head(lot_table).security_id
               THEN JoinedGain(Head(lot_table), price_table)
               ELSE 0 - Head(lot_table).buy_price
          ELSE 0)
         + Unrealized_MissingAsZero(Tail(lot_table), price_table)

\* SELECT COALESCE(SUM(p.price - l.buy_price), 0.0) FROM lots l JOIN prices p ...
\*  WHERE l.status='OPEN'
RECURSIVE Unrealized(_, _)
Unrealized(lot_table, price_table) ==
    IF lot_table = <<>> THEN 0
    ELSE (IF Head(lot_table).status = "OPEN"
          THEN JoinedGain(Head(lot_table), price_table)
          ELSE 0)
         + Unrealized(Tail(lot_table), price_table)

\* SELECT COUNT(*) FROM (SELECT l.security_id FROM lots l LEFT JOIN prices p ...
\*  WHERE l.status='OPEN' GROUP BY l.security_id
\*  HAVING MAX(CASE WHEN p.security_id IS NULL THEN 1 ELSE 0 END) = 1)
Missing(lot_table, price_table) ==
    Cardinality({sec \in {l.security_id : l \in Open(lot_table)} :
                    \E l \in Open(lot_table) :
                        /\ l.security_id = sec
                        /\ \A p \in Rows(price_table) : p.security_id # l.security_id})

portfolio_total_pnl(lot_table, price_table) ==
    [realized   |-> Realized(lot_table),
     unrealized |-> Unrealized(lot_table, price_table),
     total      |-> Realized(lot_table) + Unrealized(lot_table, price_table),
     missing    |-> Missing(lot_table, price_table)]

\* ------------------------------------------------------------------ pick_lots_auto
Reverse(s) == [i \in 1 .. Len(s) |-> s[Len(s) + 1 - i]]

\* now_price - float(r["buy_price"])
Gain(now_price, r) == now_price - r.buy_price

\* Mutant: a sort that keeps one lot of each gain.
RECURSIVE InsertByGain_OnePerGain(_, _, _, _)
InsertByGain_OnePerGain(sorted, x, now_price, reverse) ==
    IF sorted = <<>> THEN <<x>>
    ELSE IF Gain(now_price, x) = Gain(now_price, Head(sorted)) THEN sorted
    ELSE IF (IF reverse
             THEN Gain(now_price, x) > Gain(now_price, Head(sorted))
             ELSE Gain(now_price, x) < Gain(now_price, Head(sorted)))
         THEN <<x>> \o sorted
         ELSE <<Head(sorted)>> \o InsertByGain_OnePerGain(Tail(sorted), x, now_price, reverse)

\* list.sort(key=gain, reverse=...) is stable in both directions: an element
\* goes behind every element that does not have to come after it.
RECURSIVE InsertByGain(_, _, _, _)
InsertByGain(sorted, x, now_price, reverse) ==
    IF sorted = <<>> THEN <<x>>
    ELSE IF (IF reverse
             THEN Gain(now_price, x) > Gain(now_price, Head(sorted))
             ELSE Gain(now_price, x) < Gain(now_price, Head(sorted)))
         THEN <<x>> \o sorted
         ELSE <<Head(sorted)>> \o InsertByGain(Tail(sorted), x, now_price, reverse)

RECURSIVE SortByGain(_, _, _)
SortByGain(rows, now_price, reverse) ==
    IF rows = <<>> THEN <<>>
    ELSE InsertByGain(SortByGain(SubSeq(rows, 1, Len(rows) - 1), now_price, reverse),
                      rows[Len(rows)], now_price, reverse)

\* [int(r["id"]) for r in sorted_lots]
IdsOf(rows) == [i \in 1 .. Len(rows) |-> rows[i].id]

\* Mutant: a rule the function does not know selects nothing.
pick_lots_auto_UnknownEmpty(open_lots, rule, now_price) ==
    IdsOf(IF rule = "FIFO" THEN open_lots
          ELSE IF rule = "LIFO" THEN Reverse(open_lots)
          ELSE IF rule = "LONGEST_HELD" THEN open_lots
          ELSE IF rule \in {"HIGHEST_GAIN", "LOWEST_GAIN"}
               THEN IF now_price = NULL THEN open_lots
                    ELSE SortByGain(open_lots, now_price[1], rule = "HIGHEST_GAIN")
          ELSE <<>>)

\* Mutant: LIFO is the lots by id, largest first.
pick_lots_auto_LifoByIdDesc(open_lots, rule, now_price) ==
    IF rule = "LIFO"
    THEN LET ids == {open_lots[i].id : i \in 1 .. Len(open_lots)}
         IN  [i \in 1 .. Len(open_lots) |->
                CHOOSE x \in ids : Cardinality({y \in ids : y > x}) = i - 1]
    ELSE IdsOf(IF rule \in {"HIGHEST_GAIN", "LOWEST_GAIN"} /\ now_price # NULL
               THEN SortByGain(open_lots, now_price[1], rule = "HIGHEST_GAIN")
               ELSE open_lots)

\* Mutant: the direction of the two gain rules is exchanged.
pick_lots_auto_GainExchanged(open_lots, rule, now_price) ==
    IdsOf(IF rule = "FIFO" THEN open_lots
          ELSE IF rule = "LIFO" THEN Reverse(open_lots)
          ELSE IF rule = "LONGEST_HELD" THEN open_lots
          ELSE IF rule \in {"HIGHEST_GAIN", "LOWEST_GAIN"}
               THEN IF now_price = NULL THEN open_lots
                    ELSE SortByGain(open_lots, now_price[1], rule = "LOWEST_GAIN")
          ELSE open_lots)

\* now_price is None or a price: NULL or NotNull(price).
pick_lots_auto(open_lots, rule, now_price) ==
    IdsOf(IF rule = "FIFO" THEN open_lots
          ELSE IF rule = "LIFO" THEN Reverse(open_lots)
          ELSE IF rule = "LONGEST_HELD" THEN open_lots
          ELSE IF rule \in {"HIGHEST_GAIN", "LOWEST_GAIN"}
               THEN IF now_price = NULL THEN open_lots
                    ELSE SortByGain(open_lots, now_price[1], rule = "HIGHEST_GAIN")
          ELSE open_lots)

\* ------------------------------------------------------------------ the sell tab
\* seq[:n]
Take(seq, n) == SubSeq(seq, 1, IF n < Len(seq) THEN n ELSE Len(seq))

\* ORDER BY buy_datetime ASC, buy_price ASC
BatchBefore(x, y) ==
    \/ TextLess(x.buy_datetime, y.buy_datetime)
    \/ x.buy_datetime = y.buy_datetime /\ x.buy_price < y.buy_price

RECURSIVE OrderBatches(_)
OrderBatches(S) ==
    IF S = {} THEN <<>>
    ELSE LET first == CHOOSE x \in S : \A y \in S \ {x} : BatchBefore(x, y)
         IN  <<first>> \o OrderBatches(S \ {first})

\* SELECT buy_datetime, buy_price, COUNT(*), MIN(id), MAX(id) FROM lots
\*  WHERE security_id=? AND status='OPEN' GROUP BY buy_datetime, buy_price
get_open_lot_batches(table, security_id) ==
    LET open_rows == {r \in Rows(table) : r.security_id = security_id /\ r.status = "OPEN"}
        ids(l) == {r.id : r \in {x \in open_rows : /\ x.buy_datetime = l.buy_datetime
                                                   /\ x.buy_price = l.buy_price}}
    IN  OrderBatches({[buy_datetime |-> l.buy_datetime,
                       buy_price    |-> l.buy_price,
                       qty          |-> Cardinality(ids(l)),
                       first_lot_id |-> CHOOSE i \in ids(l) : \A j \in ids(l) : i <= j,
                       last_lot_id  |-> MaxOf(ids(l))] : l \in open_rows})

\* Mutant: the WHERE clause without status='OPEN'.
get_open_lots_in_batch_AnyStatus(table, security_id, buy_datetime, buy_price) ==
    LET S == {r \in Rows(table) : /\ r.security_id = security_id
                                  /\ r.buy_datetime = buy_datetime
                                  /\ r.buy_price = buy_price}
    IN  OrderOpenLots({[id |-> l.id, buy_datetime |-> l.buy_datetime,
                        buy_price |-> l.buy_price] : l \in S})

\* SELECT id, buy_datetime, buy_price FROM lots WHERE security_id=? AND
\*  status='OPEN' AND buy_datetime=? AND buy_price=? ORDER BY id ASC
\* (one buy_datetime, so the order of get_open_lots is the order of the ids)
get_open_lots_in_batch(table, security_id, buy_datetime, buy_price) ==
    LET S == {r \in Rows(table) : /\ r.security_id = security_id
                                  /\ r.status = "OPEN"
                                  /\ r.buy_datetime = buy_datetime
                                  /\ r.buy_price = buy_price}
    IN  OrderOpenLots({[id |-> l.id, buy_datetime |-> l.buy_datetime,
                        buy_price |-> l.buy_price] : l \in S})

\* The three ways of the sell tab to settle selected_ids: by rule, from a
\* batch, or by hand (picked: what the multiselect holds).
selected_ids(mode, open_lots, rule, now_price, sell_qty, batch_lots, picked) ==
    IF mode = "rule" THEN Take(pick_lots_auto(open_lots, rule, now_price), sell_qty)
    ELSE IF mode = "batch"
         THEN IF batch_lots = <<>> THEN <<>>
              ELSE IF sell_qty > Len(batch_lots) THEN <<>>
              ELSE IdsOf(Take(batch_lots, sell_qty))
    ELSE picked

\* Mutant: the handler without the comparison of the two counts.
sell_confirm_NoCountCheck(db, sid, ids, sell_qty, sell_dt, sell_price, note, mode, batch_lots) ==
    IF mode = "batch" /\ sell_qty > Len(batch_lots)
    THEN [lots |-> db.lots, transactions |-> db.transactions,
          raised |-> "ValueError", calls |-> <<>>]
    ELSE LET r == sell_lots(db, sid, ids, sell_dt, sell_price, note)
         IN  [lots |-> r.lots, transactions |-> r.transactions,
              raised |-> r.raised, calls |-> <<"sell_lots">>]

\* The handler of the confirm button.  Its except clause shows every error
\* on the page: raised is the error shown, calls the ledger functions the
\* handler came to call.
sell_confirm(db, sid, ids, sell_qty, sell_dt, sell_price, note, mode, batch_lots) ==
    IF Len(ids) # sell_qty
    THEN [lots |-> db.lots, transactions |-> db.transactions,
          raised |-> "ValueError", calls |-> <<>>]
    ELSE IF mode = "batch" /\ sell_qty > Len(batch_lots)
    THEN [lots |-> db.lots, transactions |-> db.transactions,
          raised |-> "ValueError", calls |-> <<>>]
    ELSE LET r == sell_lots(db, sid, ids, sell_dt, sell_price, note)
         IN  [lots |-> r.lots, transactions |-> r.transactions,
              raised |-> r.raised, calls |-> <<"sell_lots">>]

\* ------------------------------------------------------------------ the machine
db == [lots |-> lots, transactions |-> transactions]

\* The call that produced the current state: its arguments, its outcome, the
\* tables as they stood when it was made, for a call that reads the clock
\* what it read, and for a handler of a page the ledger functions it called.
Call(op, security_id, dt, price, qty, lot_ids, note, raised) ==
    [op |-> op, security_id |-> security_id, dt |-> dt, price |-> price,
     qty |-> qty, lot_ids |-> lot_ids, note |-> note, raised |-> raised,
     lots |-> lots, transactions |-> transactions, prices |-> prices, now |-> <<>>,
     calls |-> <<>>]

\* Nothing computed for a page yet.
NoView == [fn |-> "none"]

\* The sessions of the web page, each logged in as one user.
Sessions == {1, 2}

SessionUser == <<"ann", "bob">>

\* A session between two requests.
Idle == [pc |-> "idle", crops |-> <<>>, op |-> "none", crop_idx |-> 0,
         new_qty |-> 0, all_records |-> <<>>]

\* A new spreadsheet: both worksheets empty, no session in a request.
InitSheet ==
    /\ crops = <<>>
    /\ users = <<>>
    /\ sessions = [s \in Sessions |-> Idle]
    /\ audit = [saved |-> {}, rewritten |-> {}, registered |-> {}]

Init ==
    /\ lots = <<>>
    /\ transactions = <<>>
    /\ prices = <<>>
    /\ last = [op |-> "init", security_id |-> 0, dt |-> <<>>, price |-> 0,
               qty |-> 0, lot_ids |-> <<>>, note |-> "", raised |-> "none",
               lots |-> <<>>, transactions |-> <<>>, prices |-> <<>>, now |-> <<>>,
               calls |-> <<>>]
    /\ view = NoView
    /\ InitSheet

\* The tables are bounded: a call that would grow one past its bound is not
\* taken.  A call that raises grows nothing and is always taken.
AddBuy(security_id, buy_dt, buy_price, qty, note) ==
    /\ qty > 0 => Len(lots) + qty <= MaxLots /\ Len(transactions) < MaxTx
    /\ \E r \in {add_buy(db, security_id, buy_dt, buy_price, qty, note)} :
        /\ lots' = r.lots
        /\ transactions' = r.transactions
        /\ last' = Call("add_buy", security_id, buy_dt, buy_price, qty, <<>>, note, r.raised)
    /\ UNCHANGED <<prices, view>>
    /\ UNCHANGED sheetVars

SellLots(security_id, lot_ids, sell_dt, sell_price, note) ==
    /\ lot_ids # <<>> => Len(transactions) < MaxTx
    /\ \E r \in {sell_lots(db, security_id, lot_ids, sell_dt, sell_price, note)} :
        /\ lots' = r.lots
        /\ transactions' = r.transactions
        /\ last' = Call("sell_lots", security_id, sell_dt, sell_price, 0, lot_ids, note, r.raised)
    /\ UNCHANGED <<prices, view>>
    /\ UNCHANGED sheetVars

\* The arguments of the calls.  A call that raises does so before any other
\* argument reaches a statement, so one choice of them stands for all.
BuyArgs ==
    {[security_id |-> s, fill |-> f, qty |-> q, note |-> n] :
        s \in Securities, f \in Fills, q \in 1 .. MaxQty, n \in Notes}
    \cup {[security_id |-> 1, fill |-> [dt |-> <<0, 2, 0>>, price |-> 110], qty |-> q, note |-> ""] :
        q \in {x \in Quantities : x <= 0}}

SellArgs ==
    {[security_id |-> s, lot_ids |-> ids, fill |-> f, note |-> n] :
        s \in Securities, ids \in LotIdLists \ {<<>>}, f \in Fills, n \in Notes}
    \cup {[security_id |-> 1, lot_ids |-> <<>>, fill |-> [dt |-> <<0, 2, 0>>, price |-> 110], note |-> ""]}

Next ==
    \/ \E a \in BuyArgs : AddBuy(a.security_id, a.fill.dt, a.fill.price, a.qty, a.note)
    \/ \E a \in SellArgs : SellLots(a.security_id, a.lot_ids, a.fill.dt, a.fill.price, a.note)

Spec == Init /\ [][Next]_vars

\* ------------------------------------------------------------------ the ledger with quotes
\* The quotes the dashboard saves: typed in (asof None, the clock read by
\* iso_now) or fetched (asof the text the price source returned).
Quotes == {[price |-> 100, asof |-> NULL], [price |-> 120, asof |-> NotNull(<<3>>)]}

Clock == {<<4>>}

PriceArgs ==
    {[security_id |-> s, price |-> q.price, asof |-> q.asof, now |-> n] :
        s \in Securities, q \in Quotes, n \in Clock}

SetPrice(security_id, price, asof, now) ==
    /\ prices' = set_price(prices, security_id, price, asof, now)
    /\ last' = [Call("set_price", security_id, asof, price, 0, <<>>, "", "none")
                    EXCEPT !.now = now]
    /\ UNCHANGED <<lots, transactions, view>>
    /\ UNCHANGED sheetVars

\* The ledger calls taken between the quotes: the buys that insert lots and
\* the sells of one lot.
QuotedBuyArgs == {a \in BuyArgs : a.qty > 0}

QuotedSellArgs == {a \in SellArgs : Len(a.lot_ids) = 1}

NextPrices ==
    \/ \E a \in QuotedBuyArgs : AddBuy(a.security_id, a.fill.dt, a.fill.price, a.qty, a.note)
    \/ \E a \in QuotedSellArgs : SellLots(a.security_id, a.lot_ids, a.fill.dt, a.fill.price, a.note)
    \/ \E a \in PriceArgs : SetPrice(a.security_id, a.price, a.asof, a.now)

SpecPrices == Init /\ [][NextPrices]_vars

\* ------------------------------------------------------------------ the ledger behind the tabs
\* One writer, every request whole: the buy tab (a quantity of at least 1),
\* the save of a quote, and the sell tab, which reads the open lots, settles
\* selected_ids and runs the handler of the confirm button.
UiRules == {"FIFO", "LIFO", "LONGEST_HELD", "HIGHEST_GAIN", "LOWEST_GAIN"}

\* What a multiselect over the options S can hold: options, each once.
Picks(S) ==
    UNION {{p \in [1 .. Cardinality(T) -> T] : \A i, j \in 1 .. Cardinality(T) : p[i] = p[j] => i = j} :
             T \in SUBSET S}

NowPrice(security_id) ==
    IF get_price(prices, security_id) = NULL THEN NULL
    ELSE NotNull(get_price(prices, security_id)[1][2])

\* The handler of the confirm button, run on what the request has read and
\* what the widgets hold.
SellConfirm(sid, open_lots, mode, rule, sell_qty, picked, batch_lots, sell_dt, sell_price, note) ==
    \E ids \in {selected_ids(mode, open_lots, rule, NowPrice(sid), sell_qty, batch_lots, picked)} :
        /\ Len(ids) = sell_qty => Len(transactions) < MaxTx
        /\ \E r \in {sell_confirm(db, sid, ids, sell_qty, sell_dt, sell_price, note,
                                   mode, batch_lots)} :
            /\ lots' = r.lots
            /\ transactions' = r.transactions
            /\ last' = [Call("sell_confirm", sid, sell_dt, sell_price, sell_qty, ids,
                              note, r.raised) EXCEPT !.calls = r.calls]
        /\ UNCHANGED <<prices, view>>
        /\ UNCHANGED sheetVars

\* A request of the sell tab: it reads the open lots (and stops when there
\* are none), offers a quantity of 1 .. len(open_lots), and then by rule, by
\* batch or by hand settles the ids the handler gets.
SellTab(sid, sell_dt, sell_price, note) ==
    \E open_lots \in {get_open_lots(lots, sid)} :
        /\ open_lots # <<>>
        /\ \E sell_qty \in 1 .. Len(open_lots) :
              \/ \E rule \in UiRules :
                    SellConfirm(sid, open_lots, "rule", rule, sell_qty, <<>>, <<>>,
                                sell_dt, sell_price, note)
              \/ \E b \in Range(get_open_lot_batches(lots, sid)) :
                    SellConfirm(sid, open_lots, "batch", "", sell_qty, <<>>,
                                get_open_lots_in_batch(lots, sid, b.buy_datetime, b.buy_price),
                                sell_dt, sell_price, note)
              \/ \E picked \in Picks(Range(IdsOf(open_lots))) :
                    SellConfirm(sid, open_lots, "manual", "", sell_qty, picked, <<>>,
                                sell_dt, sell_price, note)

\* The quote the dashboard saves by hand: no asof, the clock.
UiPriceArgs == {a \in PriceArgs : a.asof = NULL}

NextUI ==
    \/ \E a \in QuotedBuyArgs : AddBuy(a.security_id, a.fill.dt, a.fill.price, a.qty, a.note)
    \/ \E a \in UiPriceArgs : SetPrice(a.security_id, a.price, a.asof, a.now)
    \/ \E sid \in Securities, f \in Fills, n \in Notes : SellTab(sid, f.dt, f.price, n)

SpecUI == Init /\ [][NextUI]_vars

\* ------------------------------------------------------------------ the pages
\* What the sell tab hands to pick_lots_auto: the rule of the select box or
\* any other text, the quote of the security or None, and an answer of
\* get_open_lots.
Rules == {"FIFO", "LIFO", "LONGEST_HELD", "HIGHEST_GAIN", "LOWEST_GAIN", "fifo", ""}

NowPrices == {NULL, NotNull(0), NotNull(100)}

LotDates == {<<1>>, <<2>>}

BuyPrices == {90, 100, 110}

OpenLotLists ==
    UNION {{OrderOpenLots({[id |-> i, buy_datetime |-> f[i][1], buy_price |-> f[i][2]] : i \in I}) :
               f \in [I -> LotDates \X BuyPrices]} :
           I \in SUBSET (1 .. MaxOpen)}

\* A page run: the arguments are at hand (done = FALSE), then the function
\* has answered (done = TRUE, out its answer).
PickInputs ==
    {[fn |-> "pick_lots_auto", open_lots |-> open_lots, rule |-> rule,
      now_price |-> now_price, done |-> FALSE, out |-> <<>>] :
        open_lots \in OpenLotLists, rule \in Rules, now_price \in NowPrices}

\* The returns handed to farm_stage: None, and around every whole percent up
\* to MaxPct the percent itself and its neighbours a thousandth away.
ReturnPcts ==
    {NULL} \cup {NotNull(<<k * 1000 + e, 1000>>) : k \in (0 - MaxPct) .. MaxPct, e \in {-1, 0, 1}}

StageInputs ==
    {[fn |-> "farm_stage", return_pct |-> r, done |-> FALSE, out |-> <<>>] : r \in ReturnPcts}

\* The prices handed to pct.
PctPrices == {0, 90, 99, 100, 110, 111}

PctInputs ==
    {[fn |-> "pct", a |-> a, b |-> b, done |-> FALSE, out |-> <<>>] :
        a \in PctPrices, b \in PctPrices}

InitView ==
    /\ lots = <<>>
    /\ transactions = <<>>
    /\ prices = <<>>
    /\ last = [op |-> "init", security_id |-> 0, dt |-> <<>>, price |-> 0,
               qty |-> 0, lot_ids |-> <<>>, note |-> "", raised |-> "none",
               lots |-> <<>>, transactions |-> <<>>, prices |-> <<>>, now |-> <<>>,
               calls |-> <<>>]
    /\ view \in PickInputs \cup StageInputs \cup PctInputs
    /\ InitSheet

PickLotsAuto ==
    /\ view.fn = "pick_lots_auto"
    /\ ~view.done
    /\ view' = [view EXCEPT !.done = TRUE,
                            !.out = pick_lots_auto(view.open_lots, view.rule, view.now_price)]
    /\ UNCHANGED <<lots, transactions, prices, last>>
    /\ UNCHANGED sheetVars

FarmStage ==
    /\ view.fn = "farm_stage"
    /\ ~view.done
    /\ view' = [view EXCEPT !.done = TRUE, !.out = farm_stage(view.return_pct)]
    /\ UNCHANGED <<lots, transactions, prices, last>>
    /\ UNCHANGED sheetVars

Pct ==
    /\ view.fn = "pct"
    /\ ~view.done
    /\ view' = [view EXCEPT !.done = TRUE, !.out = pct(view.a, view.b)]
    /\ UNCHANGED <<lots, transactions, prices, last>>
    /\ UNCHANGED sheetVars

NextView ==
    \/ PickLotsAuto
    \/ FarmStage
    \/ Pct

SpecView == InitView /\ [][NextView]_vars

\* ------------------------------------------------------------------ the worksheets
\* A filled row of a worksheet: a header row with its cells, a row of Crops
\* or a row of Users with its cells by column.  get_all_records keys the rows
\* under the first one by the cells of the first row, so a record is its row.
HeaderRow(headers) == [kind |-> "header", cells |-> headers]

CropsHeader == <<"User", "Ticker", "BuyPrice", "Quantity", "BuyDate">>

UsersHeader == <<"Nickname", "PasswordHash">>

CropRow(user, ticker, buy_price, quantity, buy_date) ==
    [kind |-> "crop", User |-> user, Ticker |-> ticker, BuyPrice |-> buy_price,
     Quantity |-> quantity, BuyDate |-> buy_date]

UserRow(nickname, password_hash) ==
    [kind |-> "user", Nickname |-> nickname, PasswordHash |-> password_hash]

\* _ensure_headers: append the headers when the first row is empty.
ensure_headers(ws, headers) ==
    IF ws = <<>> THEN <<HeaderRow(headers)>> ELSE ws

\* r['User'] of a record of Crops: under a second header row it is the text
\* of that row's first cell.
UserOf(r) == IF r.kind = "header" THEN r.cells[1] ELSE r.User

\* get_all_records followed by the r['User'] of the callers: the rows under
\* the first one, and KeyError when the first row of a sheet with records is
\* not the header.
get_all_records(ws) ==
    IF Len(ws) <= 1 THEN [raised |-> "none", records |-> <<>>]
    ELSE IF ws[1].kind # "header" THEN [raised |-> "KeyError", records |-> <<>>]
    ELSE [raised |-> "none", records |-> Tail(ws)]

OtherRecords(all_records, user_nickname) ==
    SelectSeq(all_records, LAMBDA r : UserOf(r) # user_nickname)

UserRecords(all_records, user_nickname) ==
    SelectSeq(all_records, LAMBDA r : UserOf(r) = user_nickname)

\* load_farm: the headers ensured, then the user's records as crops.
load_farm(ws, user_nickname) ==
    LET ws1 == ensure_headers(ws, CropsHeader)
        got == get_all_records(ws1)
        mine == UserRecords(got.records, user_nickname)
    IN  [ws |-> ws1, raised |-> got.raised,
         crops |-> [i \in 1 .. Len(mine) |->
                       [ticker |-> mine[i].Ticker, buy_price |-> mine[i].BuyPrice,
                        quantity |-> mine[i].Quantity, buy_date |-> mine[i].BuyDate]]]

\* save_crop: one append_row.
save_crop(ws, user_nickname, crop_data) ==
    Append(ws, CropRow(user_nickname, crop_data.ticker, crop_data.buy_price,
                       crop_data.quantity, crop_data.buy_date))

\* list.pop(i), i counted from 0.
Pop(seq, i) == SubSeq(seq, 1, i) \o SubSeq(seq, i + 2, Len(seq))

\* Mutant: remove_crop pops nothing and update_crop_qty assigns nothing.
final_data_Untouched(all_records, user_nickname, op, crop_idx, new_qty) ==
    OtherRecords(all_records, user_nickname) \o UserRecords(all_records, user_nickname)

\* final_data of remove_crop and of update_crop_qty: the records of the
\* others, then the user's, the one at crop_idx popped or given new_qty when
\* 0 <= crop_idx < len(user_records).
final_data(all_records, user_nickname, op, crop_idx, new_qty) ==
    LET other_records == OtherRecords(all_records, user_nickname)
        user_records  == UserRecords(all_records, user_nickname)
        in_range      == 0 <= crop_idx /\ crop_idx < Len(user_records)
    IN  IF ~in_range THEN other_records \o user_records
        ELSE IF op = "remove_crop" THEN other_records \o Pop(user_records, crop_idx)
        ELSE other_records \o
             [user_records EXCEPT ![crop_idx + 1] = [@ EXCEPT !.Quantity = new_qty]]

\* ------------------------------------------------------------------ register_user, login_user
\* hashlib.sha256(password.encode()).hexdigest(): a text of hexadecimal
\* digits, different for different passwords.
hash_password(password) ==
    CASE password = "pw1" -> "5e88"
      [] password = "pw2" -> "0b14"
      [] OTHER            -> "e3b0"

CellsOf(row) ==
    IF row.kind = "header" THEN row.cells ELSE <<row.Nickname, row.PasswordHash>>

\* ws.find(query): the first cell, row by row, whose text is the query, as
\* <<row, col>>; NULL when there is none (None, or CellNotFound raised).
find(ws, query) ==
    LET hits == {rc \in (1 .. Len(ws)) \X (1 .. 2) : CellsOf(ws[rc[1]])[rc[2]] = query}
    IN  IF hits = {} THEN NULL
        ELSE NotNull(CHOOSE rc \in hits :
                        \A o \in hits : rc[1] < o[1] \/ (rc[1] = o[1] /\ rc[2] <= o[2]))

\* ws.cell(row, col).value; an empty cell has no text.
cell(ws, row, col) ==
    IF row <= Len(ws) /\ col <= Len(CellsOf(ws[row])) THEN CellsOf(ws[row])[col] ELSE ""

\* Mutant: a nickname found is given the new password.
register_user_Overwrite(ws, nickname, password) ==
    LET ws1 == ensure_headers(ws, UsersHeader)
        at  == find(ws1, nickname)
    IN  IF at # NULL
        THEN [users |-> [i \in 1 .. Len(ws1) |->
                            IF i = at[1][1] /\ ws1[i].kind = "user"
                            THEN UserRow(nickname, hash_password(password)) ELSE ws1[i]],
              out |-> FALSE]
        ELSE [users |-> Append(ws1, UserRow(nickname, hash_password(password))),
              out |-> TRUE]

register_user(ws, nickname, password) ==
    LET ws1 == ensure_headers(ws, UsersHeader)
    IN  IF find(ws1, nickname) # NULL
        THEN [users |-> ws1, out |-> FALSE]
        ELSE [users |-> Append(ws1, UserRow(nickname, hash_password(password))),
              out |-> TRUE]

login_user(ws, nickname, password) ==
    LET ws1 == ensure_headers(ws, UsersHeader)
        at  == find(ws1, nickname)
    IN  IF at = NULL THEN [users |-> ws1, out |-> FALSE]
        ELSE [users |-> ws1,
              out |-> cell(ws1, at[1][1], at[1][2] + 1) = hash_password(password)]

\* ------------------------------------------------------------------ the farm page
\* get_current_price: what the price source answered, NULL when it raised.
get_current_price(answer) == IF answer = NULL THEN 0 ELSE answer[1]

RECURSIVE SumSeq(_)
SumSeq(seq) == IF seq = <<>> THEN 0 ELSE Head(seq) + SumSeq(Tail(seq))

\* show_farm: a row per crop with the price fetched for its ticker, the
\* return ((current_price - buy_price) / buy_price) * 100 as a fraction and
\* the gain, and the totals under them.
show_farm(crop_list, source) ==
    LET row(c) ==
            LET current_price == get_current_price(source[c.ticker])
            IN  [ticker |-> c.ticker, buy_price |-> c.buy_price, quantity |-> c.quantity,
                 current_price |-> current_price,
                 profit_rate |-> IF c.buy_price > 0
                                 THEN <<(current_price - c.buy_price) * 100, c.buy_price>>
                                 ELSE <<0, 1>>,
                 profit_amt |-> (current_price - c.buy_price) * c.quantity]
        rows == [i \in 1 .. Len(crop_list) |-> row(crop_list[i])]
    IN  [rows |-> rows,
         total_buy |-> SumSeq([i \in 1 .. Len(rows) |-> rows[i].buy_price * rows[i].quantity]),
         total_val |-> SumSeq([i \in 1 .. Len(rows) |-> rows[i].current_price * rows[i].quantity])]

\* ------------------------------------------------------------------ the sessions of the web page
\* A request of a session: load_farm, then the page of the menu.  Plant
\* calls save_crop; Harvest calls remove_crop or update_crop_qty, whose API
\* calls (get_all_records, clear, append_row, append_rows) are steps other
\* sessions' calls may come between.
Tickers == {"AAPL", "MSFT"}

BuyDates == {"2024-01-02"}

CropData ==
    {[ticker |-> t, buy_price |-> 100, quantity |-> q, buy_date |-> d] :
        t \in Tickers, q \in 1 .. MaxCropQty, d \in BuyDates}

\* The crops the two sessions plant are of one ticker.
OneTickerCropData == {c \in CropData : c.ticker = "AAPL"}

ledgerVars == <<lots, transactions, prices, last>>

LoadFarm(s) ==
    /\ sessions[s].pc = "idle"
    /\ \E r \in {load_farm(crops, SessionUser[s])} :
        /\ r.raised = "none"
        /\ crops' = r.ws
        /\ sessions' = [sessions EXCEPT ![s] = [Idle EXCEPT !.pc = "loaded", !.crops = r.crops]]
    /\ UNCHANGED <<users, audit>>
    /\ UNCHANGED <<ledgerVars, view>>

Plant(s, crop_data) ==
    /\ sessions[s].pc = "loaded"
    /\ Len(crops) < MaxRows
    /\ crops' = save_crop(crops, SessionUser[s], crop_data)
    /\ audit' = [audit EXCEPT !.saved = @ \cup {crops'[Len(crops')]}]
    /\ sessions' = [sessions EXCEPT ![s] = Idle]
    /\ UNCHANGED users
    /\ UNCHANGED <<ledgerVars, view>>

\* show_harvest, submitted for the crop idx of the list loaded and a quantity
\* of it: all of it calls remove_crop, less calls update_crop_qty.  The first
\* API call of either is get_all_records.
Harvest(s, idx, qty_to_sell) ==
    /\ sessions[s].pc = "loaded"
    /\ idx < Len(sessions[s].crops)
    /\ qty_to_sell <= sessions[s].crops[idx + 1].quantity
    /\ \E got \in {get_all_records(crops)} :
        /\ got.raised = "none"
        /\ sessions' = [sessions EXCEPT ![s] =
              [@ EXCEPT !.pc = "read",
                        !.op = IF qty_to_sell = sessions[s].crops[idx + 1].quantity
                               THEN "remove_crop" ELSE "update_crop_qty",
                        !.crop_idx = idx,
                        !.new_qty = sessions[s].crops[idx + 1].quantity - qty_to_sell,
                        !.all_records = got.records]]
    /\ audit' = [audit EXCEPT !.rewritten = @ \cup {SessionUser[s]}]
    /\ UNCHANGED <<crops, users>>
    /\ UNCHANGED <<ledgerVars, view>>

FinalData(s) ==
    final_data(sessions[s].all_records, SessionUser[s], sessions[s].op,
               sessions[s].crop_idx, sessions[s].new_qty)

\* ws.clear()
Clear(s) ==
    /\ sessions[s].pc = "read"
    /\ crops' = <<>>
    /\ sessions' = [sessions EXCEPT ![s] = [@ EXCEPT !.pc = "cleared"]]
    /\ UNCHANGED <<users, audit>>
    /\ UNCHANGED <<ledgerVars, view>>

\* ws.append_row(headers); the call is over when final_data is empty.
AppendHeader(s) ==
    /\ sessions[s].pc = "cleared"
    /\ Len(crops) < MaxRows
    /\ crops' = Append(crops, HeaderRow(CropsHeader))
    /\ sessions' = [sessions EXCEPT ![s] =
          IF FinalData(s) = <<>> THEN Idle ELSE [@ EXCEPT !.pc = "headed"]]
    /\ UNCHANGED <<users, audit>>
    /\ UNCHANGED <<ledgerVars, view>>

\* ws.append_rows(rows_to_add)
AppendRows(s) ==
    /\ sessions[s].pc = "headed"
    /\ Len(crops) + Len(FinalData(s)) <= MaxRows
    /\ crops' = crops \o FinalData(s)
    /\ sessions' = [sessions EXCEPT ![s] = Idle]
    /\ UNCHANGED <<users, audit>>
    /\ UNCHANGED <<ledgerVars, view>>

NextSheet ==
    \/ \E s \in Sessions : LoadFarm(s)
    \/ \E s \in Sessions, c \in OneTickerCropData : Plant(s, c)
    \/ \E s \in Sessions, idx \in 0 .. MaxRows, q \in 1 .. MaxCropQty :
          Harvest(s, idx, q)
    \/ \E s \in Sessions : Clear(s)
    \/ \E s \in Sessions : AppendHeader(s)
    \/ \E s \in Sessions : AppendRows(s)

SpecSheet == Init /\ [][NextSheet]_vars

\* ------------------------------------------------------------------ the login page, the farm page
Nicknames == {"ann", "bob", "Nickname", "5e88"}

Passwords == {"pw1", "pw2"}

\* What the price source answers for a ticker: a price, or NULL when the
\* fetch raises.
Answers == {NULL, NotNull(90), NotNull(120)}

RegisterUser(nickname, password) ==
    /\ \E r \in {register_user(users, nickname, password)} :
        /\ users' = r.users
        /\ view' = [fn |-> "register_user", nickname |-> nickname,
                    password |-> password, out |-> r.out, users |-> users]
        /\ audit' = IF r.out
                    THEN [audit EXCEPT !.registered = @ \cup {<<nickname, password>>}]
                    ELSE audit
    /\ UNCHANGED <<crops, sessions>>
    /\ UNCHANGED ledgerVars

LoginUser(nickname, password) ==
    /\ \E r \in {login_user(users, nickname, password)} :
        /\ users' = r.users
        /\ view' = [fn |-> "login_user", nickname |-> nickname,
                    password |-> password, out |-> r.out, users |-> users]
    /\ UNCHANGED <<crops, sessions, audit>>
    /\ UNCHANGED ledgerVars

ShowFarm(s, source) ==
    /\ sessions[s].pc = "loaded"
    /\ sessions[s].crops # <<>>
    /\ \E r \in {show_farm(sessions[s].crops, source)} :
        view' = [fn |-> "show_farm", crops |-> sessions[s].crops, source |-> source,
                 rows |-> r.rows, total_buy |-> r.total_buy, total_val |-> r.total_val]
    /\ sessions' = [sessions EXCEPT ![s] = Idle]
    /\ UNCHANGED <<crops, users, audit>>
    /\ UNCHANGED ledgerVars

NextAuth ==
    \/ \E n \in Nicknames, p \in Passwords : RegisterUser(n, p)
    \/ \E n \in Nicknames, p \in Passwords : LoginUser(n, p)

SpecAuth == Init /\ [][NextAuth]_vars

NextFarm ==
    \/ LoadFarm(1)
    \/ \E c \in CropData : Plant(1, c)
    \/ \E source \in [Tickers -> Answers] : ShowFarm(1, source)

SpecFarm == Init /\ [][NextFarm]_vars

\* ------------------------------------------------------------------ properties
\* The lots the last call took from OPEN to CLOSED.
ClosedByCall ==
    {l \in Closed(lots) : \E p \in Open(last.lots) : p.id = l.id}

\* The transaction the last call appended (when it appended one).
LastTx == transactions[Len(transactions)]

SellSucceeded == last.op = "sell_lots" /\ last.raised = "none"

BuySucceeded == last.op = "add_buy" /\ last.raised = "none"

\* C1: in every reachable ledger state a CLOSED lot has a sell timestamp and a
\* sell price, both non-null, and an OPEN lot has both null.
C1_SellFieldsMatchStatus ==
    \A l \in Rows(lots) :
        /\ l.status \in {"OPEN", "CLOSED"}
        /\ l.status = "CLOSED" => l.sell_datetime # NULL /\ l.sell_price # NULL
        /\ l.status = "OPEN" => l.sell_datetime = NULL /\ l.sell_price = NULL

\* A sell has just closed a lot while another lot stays OPEN.
C1_Witness ==
    /\ SellSucceeded
    /\ ClosedByCall # {}
    /\ Open(lots) # {}

\* C2: in every step every lot is still in the ledger, a CLOSED lot stays
\* CLOSED, and a status changes only from OPEN to CLOSED and only in a step of
\* sell_lots; so a lot's status changes at most once.
C2_StatusChangesOnce ==
    [][\A l \in Rows(lots) :
          \E m \in Rows(lots') :
              /\ m.id = l.id
              /\ \A k \in Rows(lots') : k.id = l.id => k = m
              /\ l.status = "CLOSED" => m.status = "CLOSED"
              /\ m.status # l.status =>
                    /\ l.status = "OPEN"
                    /\ m.status = "CLOSED"
                    /\ last'.op = "sell_lots"]_vars

\* A sell named a lot an earlier sell had closed and a lot that was OPEN: the
\* first is still CLOSED, the second has just been closed.
C2_Witness ==
    /\ SellSucceeded
    /\ ClosedByCall # {}
    /\ \E p \in Closed(last.lots) :
          /\ p.id \in Range(last.lot_ids)
          /\ p.security_id = last.security_id
          /\ p \in Rows(lots)

\* C3: a successful sell_lots whose SELL transaction records quantity N has
\* closed exactly N lots that were OPEN before the call.
C3_SellClosesExactlyN ==
    SellSucceeded => Cardinality(ClosedByCall) = LastTx.quantity

\* C4: a sell_lots with a non-empty lot_ids raises nothing, appends exactly one
\* SELL transaction whose quantity is the number of ids passed and whose
\* price is the execution price, closes with the given sell timestamp and
\* price exactly the passed ids that were OPEN and of the given security, and
\* leaves every other lot as it was.
C4_SellEffect ==
    (last.op = "sell_lots" /\ last.lot_ids # <<>>) =>
        /\ last.raised = "none"
        /\ Len(transactions) = Len(last.transactions) + 1
        /\ SubSeq(transactions, 1, Len(last.transactions)) = last.transactions
        /\ LastTx.type = "SELL"
        /\ LastTx.security_id = last.security_id
        /\ LastTx.quantity = Len(last.lot_ids)
        /\ LastTx.price = last.price
        /\ LastTx.datetime = Strip(last.dt)
        /\ Len(lots) = Len(last.lots)
        /\ \A i \in 1 .. Len(last.lots) :
              LET p == last.lots[i]
              IN  IF /\ p.id \in Range(last.lot_ids)
                     /\ p.status = "OPEN"
                     /\ p.security_id = last.security_id
                  THEN lots[i] = [p EXCEPT !.status        = "CLOSED",
                                           !.sell_datetime = NotNull(Strip(last.dt)),
                                           !.sell_price    = NotNull(last.price)]
                  ELSE lots[i] = p

\* A sell named an OPEN lot of its security, a lot of the other security and a
\* lot nobody named stays behind: the first is closed, the others are as before.
C4_Witness ==
    /\ SellSucceeded
    /\ \E l \in ClosedByCall : l.id \in Range(last.lot_ids)
    /\ \E p \in Rows(last.lots) :
          /\ p.id \in Range(last.lot_ids)
          /\ p.security_id # last.security_id
          /\ p.status = "OPEN"
          /\ p \in Rows(lots)
    /\ \E p \in Rows(last.lots) : p.id \notin Range(last.lot_ids) /\ p \in Rows(lots)

\* C5: the lots a sell_lots call takes from OPEN to CLOSED are never more than
\* the lot ids it was given, the quantity its SELL transaction records.
C5_NeverClosesMoreThanRequested ==
    last.op = "sell_lots" =>
        /\ Cardinality(ClosedByCall) <= Len(last.lot_ids)
        /\ last.raised = "none" => LastTx.quantity = Len(last.lot_ids)

\* A sell named the same OPEN lot twice while another lot of the security was
\* OPEN: one lot is closed, fewer than the two ids given.
C5_Witness ==
    /\ SellSucceeded
    /\ Len(last.lot_ids) = 2
    /\ last.lot_ids[1] = last.lot_ids[2]
    /\ Cardinality(ClosedByCall) = 1
    /\ \E l \in Open(lots) : l.security_id = last.security_id

\* The lots the last call inserted.
NewLots == SubSeq(lots, Len(last.lots) + 1, Len(lots))

\* C6: an add_buy with quantity N >= 1 raises nothing, appends exactly one BUY
\* transaction of quantity N and inserts exactly N lots with fresh, distinct
\* ids, all OPEN, of the given security, with the given buy timestamp and buy
\* price; the lots that existed are unchanged.
C6_BuyEffect ==
    (last.op = "add_buy" /\ last.qty >= 1) =>
        /\ last.raised = "none"
        /\ Len(transactions) = Len(last.transactions) + 1
        /\ SubSeq(transactions, 1, Len(last.transactions)) = last.transactions
        /\ LastTx.type = "BUY"
        /\ LastTx.security_id = last.security_id
        /\ LastTx.quantity = last.qty
        /\ LastTx.price = last.price
        /\ LastTx.datetime = Strip(last.dt)
        /\ Len(lots) = Len(last.lots) + last.qty
        /\ SubSeq(lots, 1, Len(last.lots)) = last.lots
        /\ Cardinality(Ids(NewLots)) = last.qty
        /\ Ids(NewLots) \cap Ids(last.lots) = {}
        /\ \A l \in Rows(NewLots) :
              /\ l.status = "OPEN"
              /\ l.security_id = last.security_id
              /\ l.buy_datetime = Strip(last.dt)
              /\ l.buy_price = last.price
              /\ l.sell_datetime = NULL
              /\ l.sell_price = NULL

\* A buy of two lots into a ledger that held a lot already.
C6_Witness ==
    /\ BuySucceeded
    /\ last.qty = 2
    /\ last.lots # <<>>
    /\ Len(lots) = Len(last.lots) + 2

\* C7: an add_buy with quantity < 1 raises the ValueError of the quantity check
\* and leaves the ledger as it was: no transaction appended, no lot inserted.
C7_BuyRejected ==
    (last.op = "add_buy" /\ last.qty < 1) =>
        /\ last.raised = "ValueError"
        /\ transactions = last.transactions
        /\ lots = last.lots

\* A buy of quantity zero was refused on a ledger that holds lots.
C7_Witness ==
    /\ last.op = "add_buy"
    /\ last.qty = 0
    /\ last.raised = "ValueError"
    /\ lots # <<>>
    /\ transactions # <<>>

\* C8: a sell_lots with an empty lot_ids raises the ValueError of the selection
\* check and leaves the ledger as it was: no SELL transaction appended, no lot
\* changed.
C8_EmptySellRejected ==
    (last.op = "sell_lots" /\ last.lot_ids = <<>>) =>
        /\ last.raised = "ValueError"
        /\ transactions = last.transactions
        /\ lots = last.lots

\* An empty sell was refused on a ledger that holds an OPEN lot.
C8_Witness ==
    /\ last.op = "sell_lots"
    /\ last.lot_ids = <<>>
    /\ last.raised = "ValueError"
    /\ Open(lots) # {}

\* sum(openLots.count): the OPEN lots, summed over the securities.
RECURSIVE OpenLotCountOver(_)
OpenLotCountOver(S) ==
    IF S = {} THEN 0
    ELSE LET sec == CHOOSE x \in S : TRUE
         IN  Len(get_open_lots(lots, sec)) + OpenLotCountOver(S \ {sec})

OpenLotCount == OpenLotCountOver(Securities)

\* The quantities of the BUY transactions of a table, summed.
RECURSIVE BuyQuantity(_)
BuyQuantity(table) ==
    IF table = <<>> THEN 0
    ELSE (IF Head(table).type = "BUY" THEN Head(table).quantity ELSE 0)
         + BuyQuantity(Tail(table))

BoughtQuantity == BuyQuantity(transactions)

ClosedLotCount == Cardinality({i \in 1 .. Len(lots) : lots[i].status = "CLOSED"})

\* C9: in every reachable ledger state the number of OPEN lots, summed over
\* the securities, is the sum of the quantities of the BUY transactions minus
\* the number of CLOSED lots.
C9_OpenLotsBalance == OpenLotCount = BoughtQuantity - ClosedLotCount

\* Two buys, of different securities, and a sell that closed a lot and left
\* lots OPEN.
C9_Witness ==
    /\ Cardinality({i \in 1 .. Len(transactions) : transactions[i].type = "BUY"}) = 2
    /\ {l.security_id : l \in Rows(lots)} = Securities
    /\ ClosedLotCount >= 1
    /\ OpenLotCount >= 2

\* C10: in every step the transactions already written stay as they are, a
\* prefix of the table, and a call that returns normally appends exactly one.
C10_AppendOnly ==
    [][/\ Len(transactions') >= Len(transactions)
       /\ SubSeq(transactions', 1, Len(transactions)) = transactions
       /\ last'.raised = "none" => Len(transactions') = Len(transactions) + 1]_vars

\* A third transaction has been appended after a BUY and a SELL of the same
\* security and date, which are still the first two rows.
C10_Witness ==
    /\ Len(transactions) = 3
    /\ last.raised = "none"
    /\ SubSeq(transactions, 1, 2) = last.transactions
    /\ {transactions[1].type, transactions[2].type} = {"BUY", "SELL"}
    /\ \E i \in 1 .. 2 :
          /\ transactions[i].type = LastTx.type
          /\ transactions[i].security_id = LastTx.security_id
          /\ transactions[i].datetime = LastTx.datetime

\* C11: in every step every lot of the ledger is still there, under its id,
\* with the security, the buy timestamp and the buy price it had; so these
\* three are what they were at the lot's creation, also after sell_lots has
\* closed it.
C11_BuyFieldsFrozen ==
    [][\A l \in Rows(lots) :
          /\ \E m \in Rows(lots') : m.id = l.id
          /\ \A m \in Rows(lots') :
                m.id = l.id =>
                    /\ m.security_id = l.security_id
                    /\ m.buy_datetime = l.buy_datetime
                    /\ m.buy_price = l.buy_price]_vars

\* A sell has just closed a lot at a date and a price other than those of its
\* purchase; the lot still shows the purchase as it was before the call.
C11_Witness ==
    /\ SellSucceeded
    /\ \E l \in ClosedByCall :
          /\ l.sell_datetime # NotNull(l.buy_datetime)
          /\ l.sell_price # NotNull(l.buy_price)
          /\ \E p \in Open(last.lots) :
                /\ p.id = l.id
                /\ p.security_id = l.security_id
                /\ p.buy_datetime = l.buy_datetime
                /\ p.buy_price = l.buy_price

\* The OPEN lots of a security, as rows of the table lots.
OpenOf(security_id) ==
    {l \in Open(lots) : l.security_id = security_id}

\* C12: for every security get_open_lots returns one entry, with the lot's
\* id, buy timestamp and buy price, for each OPEN lot of that security and
\* nothing else, each lot once, an earlier buy timestamp first and, among
\* equal buy timestamps, the smaller id first.
C12_OpenLotsExactAndOrdered ==
    \A s \in Securities :
        LET r == get_open_lots(lots, s)
        IN  /\ Len(r) = Cardinality(OpenOf(s))
            /\ {r[i].id : i \in 1 .. Len(r)} = {l.id : l \in OpenOf(s)}
            /\ \A i \in 1 .. Len(r) :
                  \E l \in OpenOf(s) :
                      /\ l.id = r[i].id
                      /\ l.buy_datetime = r[i].buy_datetime
                      /\ l.buy_price = r[i].buy_price
            /\ \A i, j \in 1 .. Len(r) :
                  i < j =>
                      \/ TextLess(r[i].buy_datetime, r[j].buy_datetime)
                      \/ /\ r[i].buy_datetime = r[j].buy_datetime
                         /\ r[i].id < r[j].id

\* A security holds an OPEN lot bought later under a smaller id than an OPEN
\* lot bought earlier, and the ledger holds a lot that is not an OPEN lot of
\* that security: the answer is not the order of the ids and not the table.
C12_Witness ==
    \E s \in Securities :
        LET r == get_open_lots(lots, s)
        IN  /\ Len(r) >= 2
            /\ \E i, j \in 1 .. Len(r) : i < j /\ r[i].id > r[j].id
            /\ \E l \in Rows(lots) : l \notin OpenOf(s)

\* ------------------------------------------------------------------ properties of the pages
Picked == view.fn = "pick_lots_auto" /\ view.done

\* C13: pick_lots_auto with rule FIFO, with rule LONGEST_HELD or with a rule
\* it does not know returns the ids of the open lots in the order it was
\* given them, the order of get_open_lots, whatever the buy prices are and
\* whatever the current price is, None included.
C13_NaturalOrderRules ==
    (Picked /\ view.rule \notin {"LIFO", "HIGHEST_GAIN", "LOWEST_GAIN"}) =>
        /\ view.out = IdsOf(view.open_lots)
        /\ \A p \in NowPrices :
              pick_lots_auto(view.open_lots, view.rule, p) = view.out

\* A rule the function does not know, with a current price and three lots
\* whose gains are in neither order: the ids come back as they were given.
C13_Witness ==
    /\ Picked
    /\ view.rule = "fifo"
    /\ view.now_price # NULL
    /\ Len(view.open_lots) = 3
    /\ view.open_lots[2].buy_price < view.open_lots[1].buy_price
    /\ view.open_lots[2].buy_price < view.open_lots[3].buy_price
    /\ view.out = IdsOf(view.open_lots)

\* C14: for every list of open lots and every current price, None included,
\* the ids pick_lots_auto returns with rule LIFO are those it returns with
\* rule FIFO, back to front.
C14_LifoReversesFifo ==
    (Picked /\ view.rule = "LIFO") =>
        view.out = Reverse(pick_lots_auto(view.open_lots, "FIFO", view.now_price))

\* LIFO over three lots of which the first two were bought at one timestamp
\* and the last has the smallest id, with a current price at hand.
C14_Witness ==
    /\ Picked
    /\ view.rule = "LIFO"
    /\ view.now_price # NULL
    /\ Len(view.open_lots) = 3
    /\ view.open_lots[1].buy_datetime = view.open_lots[2].buy_datetime
    /\ view.open_lots[3].id < view.open_lots[1].id
    /\ view.out = <<view.open_lots[3].id, view.open_lots[2].id, view.open_lots[1].id>>

\* The buy price of the lot with a given id.
BuyPriceOf(rows, id) ==
    (CHOOSE r \in Range(rows) : r.id = id).buy_price

\* C15: with a current price, pick_lots_auto returns every given lot once,
\* for HIGHEST_GAIN with no lot before one of larger (current price - buy
\* price) and for LOWEST_GAIN with no lot before one of smaller; with no
\* current price both rules return the lots in the order given.
C15_GainRules ==
    (Picked /\ view.rule \in {"HIGHEST_GAIN", "LOWEST_GAIN"}) =>
        IF view.now_price = NULL
        THEN view.out = IdsOf(view.open_lots)
        ELSE /\ Len(view.out) = Len(view.open_lots)
             /\ Range(view.out) = Range(IdsOf(view.open_lots))
             /\ \A i, j \in 1 .. Len(view.out) :
                   i < j =>
                     LET gi == view.now_price[1] - BuyPriceOf(view.open_lots, view.out[i])
                         gj == view.now_price[1] - BuyPriceOf(view.open_lots, view.out[j])
                     IN  IF view.rule = "HIGHEST_GAIN" THEN gi >= gj ELSE gi <= gj

\* HIGHEST_GAIN with a current price over three lots of three buy prices,
\* the dearest bought first and the cheapest second: the cheapest comes first.
C15_Witness ==
    /\ Picked
    /\ view.rule = "HIGHEST_GAIN"
    /\ view.now_price # NULL
    /\ Len(view.open_lots) = 3
    /\ view.open_lots[1].buy_price > view.open_lots[3].buy_price
    /\ view.open_lots[3].buy_price > view.open_lots[2].buy_price
    /\ view.out = <<view.open_lots[2].id, view.open_lots[3].id, view.open_lots[1].id>>

\* C26: in every step a lot that is CLOSED keeps its sell timestamp and its
\* sell price; a sell_lots that names it again, at whatever date and price
\* and from however old a view of the open lots, leaves them those of the
\* sell that closed it.
C26_SellFieldsFrozen ==
    [][\A l \in Closed(lots) :
          \A m \in Rows(lots') :
              m.id = l.id =>
                  /\ m.status = "CLOSED"
                  /\ m.sell_datetime = l.sell_datetime
                  /\ m.sell_price = l.sell_price]_vars

\* A sell at another date and price has named a lot of its security that an
\* earlier sell had closed: the lot shows the earlier sale.
C26_Witness ==
    /\ SellSucceeded
    /\ \E p \in Closed(last.lots) :
          /\ p.id \in Range(last.lot_ids)
          /\ p.security_id = last.security_id
          /\ p.sell_datetime # NotNull(Strip(last.dt))
          /\ p.sell_price # NotNull(last.price)
          /\ p \in Rows(lots)

\* C25: for every rule, known or not, and every current price or None, the
\* list pick_lots_auto returns holds every id of the given open lots exactly
\* once and no other id; so its first N ids, for every N up to the number of
\* open lots, are N distinct ids of the given lots.
C25_PickIsPermutation ==
    Picked =>
        /\ Len(view.out) = Len(view.open_lots)
        /\ Range(view.out) = Range(IdsOf(view.open_lots))
        /\ \A i, j \in 1 .. Len(view.out) : view.out[i] = view.out[j] => i = j
        /\ \A n \in 0 .. Len(view.open_lots) :
              LET firstN == SubSeq(view.out, 1, n)
              IN  /\ Len(firstN) = n
                  /\ Cardinality(Range(firstN)) = n
                  /\ Range(firstN) \subseteq Range(IdsOf(view.open_lots))

\* LOWEST_GAIN with a current price over three lots, the first two of one
\* buy price and the third dearer: the answer is not the given order and
\* still holds the three ids.
C25_Witness ==
    /\ Picked
    /\ view.rule = "LOWEST_GAIN"
    /\ view.now_price # NULL
    /\ Len(view.open_lots) = 3
    /\ view.open_lots[1].buy_price = view.open_lots[2].buy_price
    /\ view.open_lots[3].buy_price > view.open_lots[1].buy_price
    /\ view.out # IdsOf(view.open_lots)
    /\ Cardinality(Range(view.out)) = 3

\* C19 as stated: after a successful add_buy, get_open_lots of its security
\* returns the lots the call inserted and no other, with the given buy price
\* and buy timestamp, and get_closed_lots of the security holds none of them.
\* It fails when the security held OPEN lots before the call.
C19_OpenLotsAreTheNewLots ==
    BuySucceeded =>
        LET r == get_open_lots(lots, last.security_id)
        IN  /\ Range(IdsOf(r)) = Ids(NewLots)
            /\ Len(r) = last.qty
            /\ \A i \in 1 .. Len(r) :
                  r[i].buy_price = last.price /\ r[i].buy_datetime = Strip(last.dt)
            /\ Range(IdsOf(get_closed_lots(lots, last.security_id, DefaultLimit)))
                  \cap Ids(NewLots) = {}

\* C19, amended: after a successful add_buy, get_open_lots of its security
\* returns what it returned before the call together with the lots the call
\* inserted, each of these once and with the given buy price and buy
\* timestamp (so exactly the new lots when the security held no OPEN lot),
\* and get_closed_lots of the security holds none of them.
C19_BuyRoundTrip ==
    BuySucceeded =>
        LET r      == get_open_lots(lots, last.security_id)
            before == get_open_lots(last.lots, last.security_id)
        IN  /\ Len(r) = Len(before) + last.qty
            /\ Range(r) \cap Range(before) = Range(before)
            /\ Range(IdsOf(r)) \ Range(IdsOf(before)) = Ids(NewLots)
            /\ Cardinality(Ids(NewLots)) = last.qty
            /\ \A i \in 1 .. Len(r) :
                  r[i].id \in Ids(NewLots) =>
                      r[i].buy_price = last.price /\ r[i].buy_datetime = Strip(last.dt)
            /\ before = <<>> => Range(IdsOf(r)) = Ids(NewLots)
            /\ Range(IdsOf(get_closed_lots(lots, last.security_id, DefaultLimit)))
                  \cap Ids(NewLots) = {}

\* A buy of a security that held an OPEN lot and a CLOSED lot: the answer of
\* get_open_lots holds the old lot and the new one, that of get_closed_lots
\* the CLOSED one alone.
C19_Witness ==
    /\ BuySucceeded
    /\ get_open_lots(last.lots, last.security_id) # <<>>
    /\ Len(get_open_lots(lots, last.security_id)) > last.qty
    /\ get_closed_lots(lots, last.security_id, DefaultLimit) # <<>>
    /\ Ids(NewLots) # {}

\* C18: farm_stage gives the no-price stage for None and, for a return r in
\* percent, rotten exactly when r <= -10, withered exactly when -10 < r < 0,
\* sprout exactly when 0 <= r < 10 and bloom exactly when r >= 10; and pct
\* gives 0 when the buy price is 0.
C18_StageBoundaries ==
    /\ (view.fn = "farm_stage" /\ view.done) =>
          IF view.return_pct = NULL
          THEN view.out = "no-price"
          ELSE LET n == view.return_pct[1][1]
                   d == view.return_pct[1][2]
               IN  /\ view.out \in {"rotten", "withered", "sprout", "bloom"}
                   /\ view.out = "rotten" <=> n <= (0 - 10) * d
                   /\ view.out = "withered" <=> ((0 - 10) * d < n /\ n < 0)
                   /\ view.out = "sprout" <=> (0 <= n /\ n < 10 * d)
                   /\ view.out = "bloom" <=> n >= 10 * d
    /\ (view.fn = "pct" /\ view.done /\ view.b = 0) =>
          view.out[1] = 0 /\ view.out[2] > 0

\* farm_stage has answered rotten to a return of exactly -10 percent.
C18_Witness ==
    /\ view.fn = "farm_stage"
    /\ view.done
    /\ view.return_pct = NotNull(<<-10000, 1000>>)
    /\ view.out = "rotten"

\* ------------------------------------------------------------------ properties of the quotes and the P&L
\* (sell price - buy price), one term for each lot of a set of CLOSED lots.
RECURSIVE SumOfSales(_)
SumOfSales(S) ==
    IF S = {} THEN 0
    ELSE LET l == CHOOSE x \in S : TRUE
         IN  (l.sell_price[1] - l.buy_price) + SumOfSales(S \ {l})

\* C16: in every reachable state the realized P&L of portfolio_total_pnl is
\* the sum of (sell price - buy price) over the CLOSED lots of all
\* securities, 0 when none is CLOSED, and a call of add_buy or of set_price
\* leaves it what it was before the call.
C16_RealizedPnL ==
    /\ portfolio_total_pnl(lots, prices).realized = SumOfSales(Closed(lots))
    /\ Closed(lots) = {} => portfolio_total_pnl(lots, prices).realized = 0
    /\ last.op \in {"add_buy", "set_price"} =>
          portfolio_total_pnl(lots, prices).realized
              = portfolio_total_pnl(last.lots, last.prices).realized

\* A buy has just inserted lots into a ledger that holds a quote and a lot
\* sold at another price than it was bought at.
C16_Witness ==
    /\ BuySucceeded
    /\ Len(lots) > Len(last.lots)
    /\ prices # <<>>
    /\ Closed(last.lots) # {}
    /\ portfolio_total_pnl(lots, prices).realized # 0

\* (quote - buy price), one term for each lot of a set of OPEN lots whose
\* securities have quotes.
RECURSIVE SumOfPaperGains(_)
SumOfPaperGains(S) ==
    IF S = {} THEN 0
    ELSE LET l == CHOOSE x \in S : TRUE
         IN  (get_price(prices, l.security_id)[1][2] - l.buy_price)
             + SumOfPaperGains(S \ {l})

Quoted(security_id) == get_price(prices, security_id) # NULL

\* The table lots without the lots of one security.
WithoutSecurity(table, security_id) ==
    SelectSeq(table, LAMBDA l : l.security_id # security_id)

\* C17: in every reachable state the unrealized P&L of portfolio_total_pnl is
\* the sum of (quote - buy price) over the OPEN lots of the securities that
\* have a quote, and its missing count is the number of securities with an
\* OPEN lot and no quote; a security with OPEN lots and no quote adds nothing
\* to the first and exactly 1 to the second: without its lots the first is
\* the same and the second one less.
C17_UnrealizedAndMissing ==
    LET pnl == portfolio_total_pnl(lots, prices)
    IN  /\ pnl.unrealized = SumOfPaperGains({l \in Open(lots) : Quoted(l.security_id)})
        /\ pnl.missing = Cardinality({s \in Securities : OpenOf(s) # {} /\ ~Quoted(s)})
        /\ \A s \in Securities :
              (OpenOf(s) # {} /\ ~Quoted(s)) =>
                  LET rest == portfolio_total_pnl(WithoutSecurity(lots, s), prices)
                  IN  /\ rest.unrealized = pnl.unrealized
                      /\ rest.missing = pnl.missing - 1

\* One security holds two OPEN lots and no quote, the other an OPEN lot and
\* a quote above its buy price.
C17_Witness ==
    \E s, t \in Securities :
        /\ Cardinality(OpenOf(s)) = 2
        /\ ~Quoted(s)
        /\ OpenOf(t) # {}
        /\ Quoted(t)
        /\ portfolio_total_pnl(lots, prices).unrealized > 0
        /\ portfolio_total_pnl(lots, prices).missing = 1

\* C20: in every reachable state the table prices holds at most one quote
\* for each security; a call of set_price leaves the security with exactly
\* the price it was given and the asof it was given (the reading of the
\* clock when it was given none), leaves the quote of every other security
\* and all lots and transactions as they were; and no other call touches the
\* quotes, so the stored quote of a security is that of the most recent
\* set_price for it.
C20_OneLatestQuote ==
    /\ \A s \in Securities :
          Cardinality({i \in 1 .. Len(prices) : prices[i].security_id = s}) <= 1
    /\ last.op = "set_price" =>
          /\ get_price(prices, last.security_id)
                = NotNull(<<IF last.dt = NULL THEN last.now ELSE last.dt[1], last.price>>)
          /\ \A s \in Securities \ {last.security_id} :
                get_price(prices, s) = get_price(last.prices, s)
          /\ lots = last.lots
          /\ transactions = last.transactions
    /\ last.op # "set_price" => prices = last.prices

\* A set_price has just replaced the quote of a security by another asof and
\* price while the other security has a quote and the ledger holds lots and
\* transactions.
C20_Witness ==
    /\ last.op = "set_price"
    /\ get_price(last.prices, last.security_id) # NULL
    /\ get_price(last.prices, last.security_id)[1][1] # get_price(prices, last.security_id)[1][1]
    /\ get_price(last.prices, last.security_id)[1][2] # get_price(prices, last.security_id)[1][2]
    /\ \E s \in Securities \ {last.security_id} : get_price(prices, s) # NULL
    /\ lots # <<>>
    /\ Len(transactions) >= 2

\* ------------------------------------------------------------------ properties of the sell tab
\* C23: when the handler of the confirm button finds the number of selected
\* lot ids different from the sell quantity, it shows the error and does not
\* call sell_lots: no SELL transaction is appended and no lot is closed.
C23_CountMismatchRejected ==
    (last.op = "sell_confirm" /\ Len(last.lot_ids) # last.qty) =>
        /\ last.calls = <<>>
        /\ last.raised = "ValueError"
        /\ transactions = last.transactions
        /\ lots = last.lots

\* Two ids selected by hand for a sell of quantity 3, with three lots OPEN:
\* refused, the three lots still OPEN.
C23_Witness ==
    /\ last.op = "sell_confirm"
    /\ Len(last.lot_ids) = 2
    /\ last.qty = 3
    /\ last.raised = "ValueError"
    /\ Cardinality(OpenOf(last.security_id)) = 3

\* The handler called sell_lots and it returned.
UiSellDone ==
    last.op = "sell_confirm" /\ last.calls = <<"sell_lots">> /\ last.raised = "none"

\* The quantities of the SELL transactions of a table, summed.
RECURSIVE SellQuantity(_)
SellQuantity(table) ==
    IF table = <<>> THEN 0
    ELSE (IF Head(table).type = "SELL" THEN Head(table).quantity ELSE 0)
         + SellQuantity(Tail(table))

\* C27: with one writer and every sell made by the sell tab (the ids distinct
\* ids of the open lots read in the same request, their number checked
\* against the sell quantity before sell_lots is called), a sell appends a
\* SELL transaction of the sell quantity N and closes exactly N lots, and in
\* every reachable state the quantities of the SELL transactions add up to
\* the number of CLOSED lots.
C27_UiSellsCloseExactlyN ==
    /\ UiSellDone =>
          /\ Len(transactions) = Len(last.transactions) + 1
          /\ LastTx.type = "SELL"
          /\ LastTx.quantity = last.qty
          /\ Cardinality(ClosedByCall) = LastTx.quantity
    /\ SellQuantity(transactions) = ClosedLotCount

\* The second sell of the tab, of one lot after a sell of another: two SELL
\* transactions of quantity 1, two CLOSED lots.
C27_Witness ==
    /\ UiSellDone
    /\ Cardinality(ClosedByCall) = 1
    /\ Closed(last.lots) # {}
    /\ SellQuantity(transactions) = 2
    /\ ClosedLotCount = 2

\* ------------------------------------------------------------------ properties of the spreadsheet
CountIn(seq, r) == Cardinality({i \in 1 .. Len(seq) : seq[i] = r})

\* The same rows, each as many times, in any order.
SameRows(a, b) ==
    /\ Len(a) = Len(b)
    /\ \A r \in Range(a) \cup Range(b) : CountIn(a, r) = CountIn(b, r)

\* C21: remove_crop and update_crop_qty read the whole Crops sheet, change
\* their copy and write it back in separate API calls.  What the last call
\* of a rewrite appends is the records that session read at its start, the one
\* at crop_idx of its user's records removed or given the new quantity, and
\* nothing of what the sheet held in between; so a row another session
\* appended after the read is lost (C21_Witness).
C21_RewriteFromItsRead ==
    [][\A s \in Sessions :
          (sessions[s].pc = "headed" /\ sessions'[s].pc = "idle") =>
              LET snap  == sessions[s].all_records
                  added == SubSeq(crops', Len(crops) + 1, Len(crops'))
                  mine  == {k \in 1 .. Len(snap) : UserOf(snap[k]) = SessionUser[s]}
                  nth(k) == Cardinality({j \in mine : j < k}) = sessions[s].crop_idx
              IN  /\ SubSeq(crops', 1, Len(crops)) = crops
                  /\ IF sessions[s].crop_idx >= Cardinality(mine)
                     THEN SameRows(added, snap)
                     ELSE \E k \in mine :
                            /\ nth(k)
                            /\ IF sessions[s].op = "remove_crop"
                               THEN SameRows(added, Pop(snap, k - 1))
                               ELSE SameRows(added,
                                        [snap EXCEPT ![k] =
                                            [@ EXCEPT !.Quantity = sessions[s].new_qty]])
      ]_vars

\* No session is in a request, a row that save_crop appended for a user is
\* not in the sheet, and no remove_crop or update_crop_qty was ever called
\* for that user: the rewrite of another user's session has dropped it.
C21_Witness ==
    /\ \A s \in Sessions : sessions[s].pc = "idle"
    /\ \E r \in audit.saved :
        /\ r.User \notin audit.rewritten
        /\ \A i \in 1 .. Len(crops) : crops[i] # r

\* C22: a fetch of the price source that fails is not fatal and counts as
\* "no price available": the farm page is rendered, and every gain on it is
\* computed with a price the source supplied for the crop's ticker, never
\* with a substitute.
C22_NoSubstitutePrice ==
    view.fn = "show_farm" =>
        \A i \in 1 .. Len(view.rows) :
            view.source[view.rows[i].ticker] = NotNull(view.rows[i].current_price)

\* C24: once register_user(n, p) has returned True, login_user(n, p) returns
\* True and login_user(n, q) returns False for every other password q, after
\* every later call; and a later register_user of the nickname n returns
\* False and leaves the Users sheet as it was.
C24_RegisterThenLogin ==
    [][/\ \A np \in audit.registered' :
            /\ login_user(users', np[1], np[2]).out
            /\ \A q \in Passwords \ {np[2]} : ~login_user(users', np[1], q).out
       /\ \A np \in audit.registered :
            (view'.fn = "register_user" /\ view'.nickname = np[1]) =>
                (~view'.out /\ users' = users)
      ]_vars

\* A nickname registered with one password; a later register_user of it with
\* another password has just returned False.
C24_Witness ==
    /\ view.fn = "register_user"
    /\ ~view.out
    /\ \E np \in audit.registered :
        /\ np[1] = view.nickname
        /\ np[2] # view.password
        /\ login_user(users, np[1], np[2]).out
        /\ ~login_user(users, np[1], view.password).out
====
